---- MODULE Spec2Model ----
(***************************************************************************)
(* A model of the materials browser (src/app.py) and of its offline merge  *)
(* tool (src/tools/merge_results.py).                                      *)
(*                                                                         *)
(* Text is a sequence of one-character strings, so that the conversions    *)
(* the code relies on (SQLite's CAST(.. AS REAL), Python's float(), str()  *)
(* and str.strip()) are computed character by character.  Numbers are      *)
(* integers; the numerals of the model have an optional sign and decimal   *)
(* digits (no fraction, exponent, "nan" or "inf").                         *)
(*                                                                         *)
(* The two name aliases of NAME_CANDIDATES that are written in Chinese in  *)
(* the source (he-jin-cheng-fen, in its two spellings) are written         *)
(* "HeJinChengFen" and "HeJinChengFen2" here: the module is ASCII.         *)
(***************************************************************************)
EXTENDS Integers, Sequences, FiniteSets, TLC

VARIABLES
    fs,          \* the files: path -> Absent, NoTable or a table
    CURRENT_DB,  \* app.py's global: the path of the active database
    pd,          \* whether pandas was importable at process start
    clock,       \* the second of the last upload (datetime.now, to the second)
    request,     \* the request being handled (after the handler: the last one)
    resp,        \* the response to the last request
    upc,         \* db_upload run step by step: the handler's position
    up,          \* db_upload run step by step: the upload in flight
    mpc,         \* merge tool: position in main()
    base_df,     \* merge tool: the base frame as read
    new_df,      \* merge tool: the new frame as read
    TARGET_COLS, \* merge tool: the target columns (global, set from --cols)
    elements,    \* merge tool: --elements
    merged       \* merge tool: main()'s local "merged"

vars == <<fs, CURRENT_DB, pd, clock, request, resp, upc, up,
          mpc, base_df, new_df, TARGET_COLS, elements, merged>>
upVars == <<upc, up>>
appVars == <<fs, CURRENT_DB, pd, clock, request, resp, upVars>>
mergeVars == <<mpc, base_df, new_df, TARGET_COLS, elements, merged>>

---------------------------------------------------------------------------
(* Bounds of the model.                                                    *)
MaxRows == 3
MaxConds == 2
MaxTs == 2
MaxBaseRows == 2
MaxNewRows == 2

---------------------------------------------------------------------------
(* Values: a cell of a table or of a data frame.                           *)
(* Null is SQL NULL, Python None and pandas NaN/NA.                        *)
Null == [k |-> "null", n |-> 0, s |-> <<>>]
Num(n) == [k |-> "num", n |-> n, s |-> <<>>]
Text(s) == [k |-> "text", n |-> 0, s |-> s]

DigitChars == <<"0", "1", "2", "3", "4", "5", "6", "7", "8", "9">>
IsDigit(c) == \E i \in 1..10 : DigitChars[i] = c
DigitVal(c) == (CHOOSE i \in 1..10 : DigitChars[i] = c) - 1

RECURSIVE LStrip(_)
LStrip(s) == IF s # <<>> /\ Head(s) = " " THEN LStrip(Tail(s)) ELSE s
RECURSIVE RStrip(_)
RStrip(s) ==
    IF s # <<>> /\ s[Len(s)] = " " THEN RStrip(SubSeq(s, 1, Len(s) - 1)) ELSE s
\* str.strip()
Strip(s) == RStrip(LStrip(s))

RECURSIVE DigitsValue(_)
DigitsValue(s) ==
    IF s = <<>> THEN 0
    ELSE DigitsValue(SubSeq(s, 1, Len(s) - 1)) * 10 + DigitVal(s[Len(s)])

RECURSIVE DigitPrefix(_)
DigitPrefix(s) ==
    IF s = <<>> \/ ~IsDigit(Head(s)) THEN <<>>
    ELSE <<Head(s)>> \o DigitPrefix(Tail(s))

HasSign(s) == s # <<>> /\ s[1] \in {"-", "+"}
SignOf(s) == IF s # <<>> /\ s[1] = "-" THEN -1 ELSE 1
Unsigned(s) == IF HasSign(s) THEN Tail(s) ELSE s

\* A whole numeral: optional sign, then one or more digits, nothing else.
IsNumeral(s) ==
    /\ Unsigned(s) # <<>>
    /\ \A i \in 1..Len(Unsigned(s)) : IsDigit(Unsigned(s)[i])
NumeralValue(s) == SignOf(s) * DigitsValue(Unsigned(s))

\* Python's float(v) on a value read back from SQLite: a number converts,
\* a string converts when, stripped of surrounding whitespace, it is a
\* numeral; otherwise ValueError.
PyFloat(v) ==
    IF v.k = "num" THEN [ok |-> TRUE, v |-> v.n]
    ELSE IF v.k = "text" /\ IsNumeral(Strip(v.s))
         THEN [ok |-> TRUE, v |-> NumeralValue(Strip(v.s))]
         ELSE [ok |-> FALSE, v |-> 0]

\* SQLite's CAST(x AS REAL): NULL stays NULL, a number is itself, a text is
\* the value of its longest numeric prefix (leading whitespace skipped) and
\* 0.0 when it has none.
CastReal(v) ==
    IF v.k = "null" THEN Null
    ELSE IF v.k = "num" THEN v
    ELSE LET t == LStrip(v.s)
             d == DigitPrefix(Unsigned(t))
         IN  Num(IF d = <<>> THEN 0 ELSE SignOf(t) * DigitsValue(d))

RECURSIVE StrNat(_)
StrNat(n) ==
    IF n < 10 THEN <<DigitChars[n + 1]>>
    ELSE Append(StrNat(n \div 10), DigitChars[(n % 10) + 1])
\* str(n), and SQLite's number-to-text conversion, of an integer
Str(n) == IF n < 0 THEN <<"-">> \o StrNat(-n) ELSE StrNat(n)

---------------------------------------------------------------------------
(* Column names.                                                           *)
NAME_CANDIDATES == <<"HeJinChengFen", "HeJinChengFen2", "name", "Name">>

\* str.lower() on the column names of the model
Lower(name) ==
    CASE name = "Name" -> "name"
      [] name = "ID" -> "id"
      [] name = "Category" -> "category"
      [] name = "Ti" -> "ti"
      [] name = "Density" -> "density"
      [] OTHER -> name

---------------------------------------------------------------------------
(* Files and tables.  A database file is absent, or exists without a       *)
(* readable "materials" table (the empty file sqlite3.connect creates, or  *)
(* an incomplete copy), or holds the table.                                *)
Absent == [st |-> "absent", cols |-> <<>>, rows |-> <<>>]
NoTable == [st |-> "notable", cols |-> <<>>, rows |-> <<>>]
Table(cols, rows) == [st |-> "table", cols |-> cols, rows |-> rows]

DB_FILE == [name |-> "materials.db", ts |-> 0]
MAIN_DB == DB_FILE
USER_DB == [name |-> "user.db", ts |-> 0]
\* os.path.join('uploads', f'upload-{ts}.db')
TmpDb(ts) == [name |-> "uploads/upload.db", ts |-> ts]
Paths == {MAIN_DB, USER_DB} \cup {TmpDb(t) : t \in 1..MaxTs}

\* os.path.exists
Exists(files, p) == files[p].st # "absent"

\* sqlite3.connect(path) followed by a statement: the file is created,
\* empty, when it does not exist.
Connect(files, p) ==
    IF Exists(files, p) THEN files ELSE [files EXCEPT ![p] = NoTable]

ColIndex(t, name) == CHOOSE i \in 1..Len(t.cols) : t.cols[i] = name
HasCol(t, name) == \E i \in 1..Len(t.cols) : t.cols[i] = name
ColumnValues(t, name) == [i \in 1..Len(t.rows) |-> t.rows[i][ColIndex(t, name)]]

---------------------------------------------------------------------------
(* Materialising a source into a table.                                    *)

\* pd.read_excel: a frame of the sheet's cells; an empty string is read as
\* NaN (pandas' default na_values).
ReadExcel(sheet) ==
    [cols |-> sheet.cols,
     rows |-> [i \in 1..Len(sheet.rows) |->
                 [j \in 1..Len(sheet.cols) |->
                    IF sheet.rows[i][j] = Text(<<>>) THEN Null
                    ELSE sheet.rows[i][j]]]]

\* A value bound into a column declared TEXT: a number is stored as its text.
TextAffinity(v) == IF v.k = "num" THEN Text(Str(v.n)) ELSE v

\* A value bound into a column declared REAL: a text that is a numeral
\* (surrounding whitespace allowed) is stored as the number.
RealAffinity(v) ==
    IF v.k = "text" /\ IsNumeral(Strip(v.s)) THEN Num(NumeralValue(Strip(v.s)))
    ELSE v

\* The declared type of a CSV column.
ColumnType(field) ==
    IF Lower(field) = "id" THEN "INTEGER PRIMARY KEY"
    ELSE IF Lower(field) \in {"name", "category"} THEN "TEXT"
    ELSE "REAL"

\* The table built from a data frame, every column TEXT, NaN stored as NULL
\* (init_db's spreadsheet branch and db_upload build it the same way).
BuildFromFrame(df) ==
    Table(df.cols,
          [i \in 1..Len(df.rows) |->
             [j \in 1..Len(df.cols) |-> TextAffinity(df.rows[i][j])]])

\* csv.DictReader gives every cell as a string.
CsvCell(v) ==
    IF v.k = "null" THEN Text(<<>>)
    ELSE IF v.k = "num" THEN Text(Str(v.n))
    ELSE v

\* The table built from the CSV file: "" is stored as NULL, the rest under
\* the column's declared type.
BuildFromCsv(sheet) ==
    Table(sheet.cols,
          [i \in 1..Len(sheet.rows) |->
             [j \in 1..Len(sheet.cols) |->
                LET v == CsvCell(sheet.rows[i][j])
                IN  IF v = Text(<<>>) THEN Null
                    ELSE IF ColumnType(sheet.cols[j]) = "TEXT" THEN TextAffinity(v)
                    ELSE RealAffinity(v)]])

---------------------------------------------------------------------------
(* Requests and responses.                                                 *)
NoRequest ==
    [op |-> "none", db |-> "", conditions |-> <<>>,
     file |-> "", sheet |-> [cols |-> <<>>, rows |-> <<>>],
     ts |-> 0, remove |-> "", copy |-> ""]
NoResp ==
    [op |-> "none", status |-> 0, ok |-> FALSE, error |-> "", current |-> "",
     warn |-> FALSE, total |-> Null, columns |-> <<>>, data |-> <<>>,
     rows |-> <<>>, result |-> <<>>, exists |-> <<>>, before |-> ""]

\* db_options' "current": the key of the active database
Cur(db) ==
    IF db = MAIN_DB THEN "main" ELSE IF db = USER_DB THEN "user" ELSE "temp"

\* A response of handler op; "before" logs the key that was active when the
\* request arrived.
Reply(op, status) ==
    [NoResp EXCEPT !.op = op, !.status = status, !.before = Cur(CURRENT_DB)]
ErrorReply(op, status, error) ==
    [Reply(op, status) EXCEPT !.error = error]

---------------------------------------------------------------------------
(* GET /properties                                                         *)

\* ScanValues with the failed conversion skipped instead of ending the loop.
RECURSIVE ScanValues_SkipsRejected(_, _, _)
ScanValues_SkipsRejected(values, i, numeric_values) ==
    IF i > Len(values)
    THEN [is_numeric |-> TRUE, numeric_values |-> numeric_values]
    ELSE IF values[i] = Null \/ values[i] = Text(<<>>) \/ ~PyFloat(values[i]).ok
         THEN ScanValues_SkipsRejected(values, i + 1, numeric_values)
         ELSE ScanValues_SkipsRejected(values, i + 1,
                                       Append(numeric_values, PyFloat(values[i]).v))

\* The loop over one column's values: None and "" are skipped, float(v) is
\* collected, the first value float() rejects ends the loop.
RECURSIVE ScanValues(_, _, _)
ScanValues(values, i, numeric_values) ==
    IF i > Len(values)
    THEN [is_numeric |-> TRUE, numeric_values |-> numeric_values]
    ELSE IF values[i] = Null \/ values[i] = Text(<<>>)
         THEN ScanValues(values, i + 1, numeric_values)
         ELSE IF PyFloat(values[i]).ok
              THEN ScanValues(values, i + 1,
                              Append(numeric_values, PyFloat(values[i]).v))
              ELSE [is_numeric |-> FALSE, numeric_values |-> numeric_values]

\* min() and max() of a non-empty list
RECURSIVE ListMin(_)
ListMin(l) ==
    IF Len(l) = 1 THEN l[1]
    ELSE LET m == ListMin(Tail(l)) IN IF m < l[1] THEN m ELSE l[1]
RECURSIVE ListMax(_)
ListMax(l) ==
    IF Len(l) = 1 THEN l[1]
    ELSE LET m == ListMax(Tail(l)) IN IF m > l[1] THEN m ELSE l[1]

\* all_fields: the columns properties() looks at
AllFields(t) ==
    {t.cols[i] : i \in {j \in 1..Len(t.cols) :
                          Lower(t.cols[j]) \notin {"id", "name", "category"}}}

ColumnIsReported(t, field) ==
    LET scan == ScanValues(ColumnValues(t, field), 1, <<>>)
    IN  scan.is_numeric /\ scan.numeric_values # <<>>

\* result: field -> {min, max}
PropertiesResult(t) ==
    [field \in {f \in AllFields(t) : ColumnIsReported(t, f)} |->
        LET scan == ScanValues(ColumnValues(t, field), 1, <<>>)
        IN  [min |-> ListMin(scan.numeric_values),
             max |-> ListMax(scan.numeric_values)]]

properties ==
    /\ request.op = "properties"
    /\ resp.op = "none"
    /\ fs' = Connect(fs, CURRENT_DB)
    /\ resp' = [Reply("properties", 200) EXCEPT
                  !.result = PropertiesResult(fs'[CURRENT_DB])]
    /\ UNCHANGED <<CURRENT_DB, pd, clock, request, upVars, mergeVars>>

---------------------------------------------------------------------------
(* POST /search                                                            *)

\* The display-name column: the first of NAME_CANDIDATES the table has.
RECURSIVE FirstCandidate(_, _)
FirstCandidate(table_cols, i) ==
    IF i > Len(NAME_CANDIDATES) THEN ""
    ELSE IF \E j \in 1..Len(table_cols) : table_cols[j] = NAME_CANDIDATES[i]
         THEN NAME_CANDIDATES[i]
         ELSE FirstCandidate(table_cols, i + 1)
NameColumn(t) == FirstCandidate(t.cols, 1)

\* BuildQuery with each clause replacing the query instead of extending it.
RECURSIVE BuildQuery_KeepsLast(_, _, _)
BuildQuery_KeepsLast(conditions, i, query) ==
    IF i > Len(conditions) THEN query
    ELSE IF conditions[i].property = ""
         THEN BuildQuery_KeepsLast(conditions, i + 1, query)
         ELSE BuildQuery_KeepsLast(conditions, i + 1,
                                   <<[prop |-> conditions[i].property,
                                      lo |-> conditions[i].min,
                                      hi |-> conditions[i].max]>>)

\* The WHERE clause built by the loop over the conditions: one
\* CAST("prop" AS REAL) BETWEEN ? AND ? per condition that has a property.
RECURSIVE BuildQuery(_, _, _)
BuildQuery(conditions, i, query) ==
    IF i > Len(conditions) THEN query
    ELSE IF conditions[i].property = ""
         THEN BuildQuery(conditions, i + 1, query)
         ELSE BuildQuery(conditions, i + 1,
                         Append(query, [prop |-> conditions[i].property,
                                        lo |-> conditions[i].min,
                                        hi |-> conditions[i].max]))

\* x BETWEEN lo AND hi under SQL's three-valued logic: a NULL operand makes
\* it unknown, and WHERE keeps only the rows for which it is true.
Between(x, lo, hi) ==
    /\ x.k = "num" /\ lo.k = "num" /\ hi.k = "num"
    /\ lo.n <= x.n /\ x.n <= hi.n

\* Whether row i of t satisfies "WHERE 1=1 AND clause AND clause ..."
RowSelected(t, i, query) ==
    \A q \in 1..Len(query) :
        Between(CastReal(t.rows[i][ColIndex(t, query[q].prop)]),
                query[q].lo, query[q].hi)

\* The rowids c.fetchall() returns, in rowid order.
RECURSIVE FetchAll(_, _, _)
FetchAll(t, i, query) ==
    IF i > Len(t.rows) THEN <<>>
    ELSE (IF RowSelected(t, i, query) THEN <<i>> ELSE <<>>)
         \o FetchAll(t, i + 1, query)

\* columns = ["id", "name", *table_cols]
ResultColumns(t) == <<"id", "name">> \o t.cols

\* The selected tuple of row i: rowid, display name, then the row's cells.
ResultTuple(t, i) ==
    <<Num(i),
      IF NameColumn(t) = "" THEN Text(<<>>)
      ELSE t.rows[i][ColIndex(t, NameColumn(t))]>> \o t.rows[i]

\* dict(zip(columns, r)): a later column of the same name wins.
ZipDict(columns, r) ==
    [c \in {columns[j] : j \in 1..Len(columns)} |->
        r[CHOOSE j \in 1..Len(columns) :
            /\ columns[j] = c
            /\ \A m \in 1..Len(columns) : columns[m] = c => m <= j]]

SearchReply(t, conditions) ==
    LET rows == FetchAll(t, 1, BuildQuery(conditions, 1, <<>>))
    IN  [Reply("search", 200) EXCEPT
           !.columns = ResultColumns(t),
           !.rows = rows,
           !.data = [n \in 1..Len(rows) |->
                       ZipDict(ResultColumns(t), ResultTuple(t, rows[n]))]]

search ==
    /\ request.op = "search"
    /\ resp.op = "none"
    /\ fs' = Connect(fs, CURRENT_DB)
    /\ resp' = IF fs'[CURRENT_DB].st = "table"
               THEN SearchReply(fs'[CURRENT_DB], request.conditions)
               ELSE ErrorReply("search", 500, "no such table: materials")
    /\ UNCHANGED <<CURRENT_DB, pd, clock, request, upVars, mergeVars>>

---------------------------------------------------------------------------
(* GET /stats and GET /db/options                                          *)

\* SELECT COUNT(*) FROM materials; any exception gives total = None.
StatsTotal(t) == IF t.st = "table" THEN Num(Len(t.rows)) ELSE Null

stats ==
    /\ request' = [NoRequest EXCEPT !.op = "stats"]
    /\ fs' = Connect(fs, CURRENT_DB)
    /\ resp' = [Reply("stats", 200) EXCEPT !.total = StatsTotal(fs'[CURRENT_DB])]
    /\ UNCHANGED <<CURRENT_DB, pd, clock, upVars, mergeVars>>

db_options ==
    /\ request' = [NoRequest EXCEPT !.op = "options"]
    /\ resp' = [Reply("options", 200) EXCEPT
                  !.current = Cur(CURRENT_DB),
                  !.exists = <<Exists(fs, MAIN_DB), Exists(fs, USER_DB)>>]
    /\ UNCHANGED <<fs, CURRENT_DB, pd, clock, upVars, mergeVars>>

---------------------------------------------------------------------------
(* POST /db/select                                                         *)

\* The handler's outcome: the files, the active database, the response.
Outcome(files, db, response) == [fs |-> files, db |-> db, resp |-> response]

\* db_select copying main over user on every select of "user".
SelectOutcome_AlwaysCopies(files, cur, key) ==
    IF key = "main"
    THEN Outcome(files, MAIN_DB,
                 [Reply("select", 200) EXCEPT !.ok = TRUE, !.current = "main"])
    ELSE IF key = "user"
    THEN IF ~Exists(files, MAIN_DB)
         THEN Outcome(files, cur, ErrorReply("select", 500, "main db missing"))
         ELSE Outcome([files EXCEPT ![USER_DB] = files[MAIN_DB]], USER_DB,
                      [Reply("select", 200) EXCEPT !.ok = TRUE, !.current = "user"])
    ELSE Outcome(files, cur, ErrorReply("select", 400, "unknown db"))

\* db_select without the check that main exists: a missing main gives an
\* empty user database.
SelectOutcome_NoMainCheck(files, cur, key) ==
    IF key = "main"
    THEN Outcome(files, MAIN_DB,
                 [Reply("select", 200) EXCEPT !.ok = TRUE, !.current = "main"])
    ELSE IF key = "user"
    THEN Outcome(IF Exists(files, USER_DB) THEN files
                 ELSE IF Exists(files, MAIN_DB)
                      THEN [files EXCEPT ![USER_DB] = files[MAIN_DB]]
                      ELSE [files EXCEPT ![USER_DB] = NoTable],
                 USER_DB,
                 [Reply("select", 200) EXCEPT !.ok = TRUE, !.current = "user"])
    ELSE Outcome(files, cur, ErrorReply("select", 400, "unknown db"))

SelectOutcome(files, cur, key) ==
    IF key = "main"
    THEN Outcome(files, MAIN_DB,
                 [Reply("select", 200) EXCEPT !.ok = TRUE, !.current = "main"])
    ELSE IF key = "user"
    THEN IF ~Exists(files, USER_DB) /\ ~Exists(files, MAIN_DB)
         THEN Outcome(files, cur, ErrorReply("select", 500, "main db missing"))
         ELSE Outcome(IF ~Exists(files, USER_DB)
                      THEN [files EXCEPT ![USER_DB] = files[MAIN_DB]]  \* shutil.copy
                      ELSE files,
                      USER_DB,
                      [Reply("select", 200) EXCEPT !.ok = TRUE, !.current = "user"])
    ELSE Outcome(files, cur, ErrorReply("select", 400, "unknown db"))

db_select(key) ==
    /\ request' = [NoRequest EXCEPT !.op = "select", !.db = key]
    /\ fs' = SelectOutcome(fs, CURRENT_DB, key).fs
    /\ CURRENT_DB' = SelectOutcome(fs, CURRENT_DB, key).db
    /\ resp' = SelectOutcome(fs, CURRENT_DB, key).resp
    /\ UNCHANGED <<pd, clock, upVars, mergeVars>>

---------------------------------------------------------------------------
(* POST /db/upload                                                         *)

\* f.filename.lower().endswith(('.xlsx', '.xls')), on the file names of the
\* model
HasExcelSuffix(filename) == filename \in {"data.xlsx", "DATA.XLS", "broken.xlsx"}

\* Whether pd.read_excel reads the saved file with one of its two engines.
Readable(filename) == filename # "broken.xlsx"

\* The try block that builds tmp_db: it fails when the file cannot be read,
\* and when CREATE TABLE fails, which it does on a sheet with no column and
\* on a tmp_db that already holds the table (an upload of the same second).
BuildFails(files, u) ==
    \/ ~Readable(u.file)
    \/ Len(u.sheet.cols) = 0
    \/ files[TmpDb(u.ts)].st = "table"

\* The files after "remove the user database, then copy tmp_db over it":
\* the removal may fail (it is ignored), the copy may fail before it touches
\* the destination or leave it incomplete.
Replaced(files, u) ==
    LET removed == IF Exists(files, USER_DB) /\ u.remove = "ok"
                   THEN [files EXCEPT ![USER_DB] = Absent] ELSE files
    IN  IF u.copy = "ok" THEN [removed EXCEPT ![USER_DB] = removed[TmpDb(u.ts)]]
        ELSE IF u.copy = "partial" THEN [removed EXCEPT ![USER_DB] = NoTable]
        ELSE removed

UploadOutcome(files, cur, pandas, u) ==
    IF u.file = ""
    THEN Outcome(files, cur, ErrorReply("upload", 400, "missing file"))
    ELSE IF ~HasExcelSuffix(u.file)
    THEN Outcome(files, cur, ErrorReply("upload", 400, "only .xlsx or .xls"))
    ELSE IF ~pandas
    THEN Outcome(files, cur, ErrorReply("upload", 500, "pandas is needed"))
    ELSE IF BuildFails(files, u)
    THEN Outcome([files EXCEPT ![TmpDb(u.ts)] = Absent],      \* os.remove(tmp_db)
                 cur, ErrorReply("upload", 500, "build failed"))
    ELSE LET built == [files EXCEPT ![TmpDb(u.ts)] =
                          BuildFromFrame(ReadExcel(u.sheet))]
         IN  IF u.copy = "ok"
             THEN Outcome(Replaced(built, u), USER_DB,
                          [Reply("upload", 200) EXCEPT
                             !.ok = TRUE, !.current = "user"])
             ELSE Outcome(Replaced(built, u), TmpDb(u.ts),
                          [Reply("upload", 200) EXCEPT
                             !.ok = TRUE, !.current = "temp", !.warn = TRUE])

\* The second the handler reads from the clock once the file is accepted.
TimeRead(u) == u.file # "" /\ HasExcelSuffix(u.file)

db_upload(u) ==
    /\ u.ts >= clock
    /\ request' = [NoRequest EXCEPT !.op = "upload", !.file = u.file,
                     !.sheet = u.sheet, !.ts = u.ts,
                     !.remove = u.remove, !.copy = u.copy]
    /\ clock' = IF TimeRead(u) THEN u.ts ELSE clock
    /\ fs' = UploadOutcome(fs, CURRENT_DB, pd, u).fs
    /\ CURRENT_DB' = UploadOutcome(fs, CURRENT_DB, pd, u).db
    /\ resp' = UploadOutcome(fs, CURRENT_DB, pd, u).resp
    /\ UNCHANGED <<pd, upVars, mergeVars>>

---------------------------------------------------------------------------
(* Process start: python app.py runs init_db and serves; the module's      *)
(* globals are initialised again, the files are the ones on disk.          *)

\* The main database init_db builds: from the spreadsheet when XLS_FILE
\* exists, else from the CSV file.
InitDbTable(src) ==
    IF src.kind = "xls" THEN BuildFromFrame(ReadExcel(src.sheet))
    ELSE BuildFromCsv(src.sheet)

init_db(src) ==
    /\ src.kind = "xls" => pd
    /\ fs' = [fs EXCEPT ![MAIN_DB] = InitDbTable(src)]
    /\ CURRENT_DB' = MAIN_DB
    /\ request' = NoRequest
    /\ resp' = NoResp
    /\ UNCHANGED <<pd, clock, upVars, mergeVars>>

---------------------------------------------------------------------------
(* The merge tool (tools/merge_results.py).  A data frame is its columns,  *)
(* in order, and its rows, each a function from the column names to cells. *)
KEY_COL == "source_folder"
DefaultTargetCols == <<"HeJinChengFen">>

_ELEMENTS ==
    { "H", "He", "Li", "Be", "B", "C", "N", "O", "F", "Ne", "Na", "Mg",
      "Al", "Si", "P", "S", "Cl", "Ar", "K", "Ca", "Sc", "Ti", "V", "Cr",
      "Mn", "Fe", "Co", "Ni", "Cu", "Zn", "Ga", "Ge", "As", "Se", "Br",
      "Kr", "Rb", "Sr", "Y", "Zr", "Nb", "Mo", "Tc", "Ru", "Rh", "Pd", "Ag",
      "Cd", "In", "Sn", "Sb", "Te", "I", "Xe", "Cs", "Ba", "La", "Ce", "Pr",
      "Nd", "Pm", "Sm", "Eu", "Gd", "Tb", "Dy", "Ho", "Er", "Tm", "Yb",
      "Lu", "Hf", "Ta", "W", "Re", "Os", "Ir", "Pt", "Au", "Hg", "Tl", "Pb",
      "Bi", "Po", "At", "Rn", "Fr", "Ra", "Ac", "Th", "Pa", "U", "Np", "Pu",
      "Am", "Cm", "Bk", "Cf", "Es", "Fm", "Md", "No", "Lr", "Rf", "Db",
      "Sg", "Bh", "Hs", "Mt", "Ds", "Rg", "Cn", "Nh", "Fl", "Mc", "Lv",
      "Ts", "Og" }

\* str.upper() and str.capitalize() on the element symbols and on the
\* column names of the model (the two aliases stand for names without case)
Upper(name) ==
    CASE name = "He" -> "HE"
      [] name = "Li" -> "LI"
      [] name = "Be" -> "BE"
      [] name = "Ne" -> "NE"
      [] name = "Na" -> "NA"
      [] name = "Mg" -> "MG"
      [] name = "Al" -> "AL"
      [] name = "Si" -> "SI"
      [] name = "Cl" -> "CL"
      [] name = "Ar" -> "AR"
      [] name = "Ca" -> "CA"
      [] name = "Sc" -> "SC"
      [] name = "Ti" -> "TI"
      [] name = "Cr" -> "CR"
      [] name = "Mn" -> "MN"
      [] name = "Fe" -> "FE"
      [] name = "Co" -> "CO"
      [] name = "Ni" -> "NI"
      [] name = "Cu" -> "CU"
      [] name = "Zn" -> "ZN"
      [] name = "Ga" -> "GA"
      [] name = "Ge" -> "GE"
      [] name = "As" -> "AS"
      [] name = "Se" -> "SE"
      [] name = "Br" -> "BR"
      [] name = "Kr" -> "KR"
      [] name = "Rb" -> "RB"
      [] name = "Sr" -> "SR"
      [] name = "Zr" -> "ZR"
      [] name = "Nb" -> "NB"
      [] name = "Mo" -> "MO"
      [] name = "Tc" -> "TC"
      [] name = "Ru" -> "RU"
      [] name = "Rh" -> "RH"
      [] name = "Pd" -> "PD"
      [] name = "Ag" -> "AG"
      [] name = "Cd" -> "CD"
      [] name = "In" -> "IN"
      [] name = "Sn" -> "SN"
      [] name = "Sb" -> "SB"
      [] name = "Te" -> "TE"
      [] name = "Xe" -> "XE"
      [] name = "Cs" -> "CS"
      [] name = "Ba" -> "BA"
      [] name = "La" -> "LA"
      [] name = "Ce" -> "CE"
      [] name = "Pr" -> "PR"
      [] name = "Nd" -> "ND"
      [] name = "Pm" -> "PM"
      [] name = "Sm" -> "SM"
      [] name = "Eu" -> "EU"
      [] name = "Gd" -> "GD"
      [] name = "Tb" -> "TB"
      [] name = "Dy" -> "DY"
      [] name = "Ho" -> "HO"
      [] name = "Er" -> "ER"
      [] name = "Tm" -> "TM"
      [] name = "Yb" -> "YB"
      [] name = "Lu" -> "LU"
      [] name = "Hf" -> "HF"
      [] name = "Ta" -> "TA"
      [] name = "Re" -> "RE"
      [] name = "Os" -> "OS"
      [] name = "Ir" -> "IR"
      [] name = "Pt" -> "PT"
      [] name = "Au" -> "AU"
      [] name = "Hg" -> "HG"
      [] name = "Tl" -> "TL"
      [] name = "Pb" -> "PB"
      [] name = "Bi" -> "BI"
      [] name = "Po" -> "PO"
      [] name = "At" -> "AT"
      [] name = "Rn" -> "RN"
      [] name = "Fr" -> "FR"
      [] name = "Ra" -> "RA"
      [] name = "Ac" -> "AC"
      [] name = "Th" -> "TH"
      [] name = "Pa" -> "PA"
      [] name = "Np" -> "NP"
      [] name = "Pu" -> "PU"
      [] name = "Am" -> "AM"
      [] name = "Cm" -> "CM"
      [] name = "Bk" -> "BK"
      [] name = "Cf" -> "CF"
      [] name = "Es" -> "ES"
      [] name = "Fm" -> "FM"
      [] name = "Md" -> "MD"
      [] name = "No" -> "NO"
      [] name = "Lr" -> "LR"
      [] name = "Rf" -> "RF"
      [] name = "Db" -> "DB"
      [] name = "Sg" -> "SG"
      [] name = "Bh" -> "BH"
      [] name = "Hs" -> "HS"
      [] name = "Mt" -> "MT"
      [] name = "Ds" -> "DS"
      [] name = "Rg" -> "RG"
      [] name = "Cn" -> "CN"
      [] name = "Nh" -> "NH"
      [] name = "Fl" -> "FL"
      [] name = "Mc" -> "MC"
      [] name = "Lv" -> "LV"
      [] name = "Ts" -> "TS"
      [] name = "Og" -> "OG"
      [] name = "source_folder" -> "SOURCE_FOLDER"
      [] name = "note" -> "NOTE"
      [] name = "ti" -> "TI"
      [] name = "Density" -> "DENSITY"
      [] name = "Name" -> "NAME"
      [] name = "name" -> "NAME"
      [] name = "id" -> "ID"
      [] name = "category" -> "CATEGORY"
      [] OTHER -> name
Capitalize(name) ==
    CASE name = "source_folder" -> "Source_folder"
      [] name = "note" -> "Note"
      [] name = "TI" -> "Ti"
      [] name = "ti" -> "Ti"
      [] name = "name" -> "Name"
      [] name = "id" -> "Id"
      [] name = "category" -> "Category"
      [] OTHER -> name

_is_element_col(name) ==
    /\ name # ""
    /\ \/ Capitalize(name) \in _ELEMENTS
       \/ Upper(name) \in {Upper(sym) : sym \in _ELEMENTS}

Frame(cols, rows) == [cols |-> cols, rows |-> rows]
ColSet(df) == {df.cols[j] : j \in 1..Len(df.cols)}
Without(cols, c) == SelectSeq(cols, LAMBDA x : x # c)

\* astype(str): NaN becomes "nan", a number its digits
AsStr(v) ==
    IF v.k = "null" THEN <<"n", "a", "n">>
    ELSE IF v.k = "num" THEN Str(v.n)
    ELSE v.s

\* normalize_key on one key: astype(str).str.strip()
normalize_key(v) == Text(Strip(AsStr(v)))

\* df[KEY_COL] = normalize_key(df[KEY_COL])
NormalizeKeys(df) ==
    Frame(df.cols,
          [i \in 1..Len(df.rows) |->
             [df.rows[i] EXCEPT ![KEY_COL] = normalize_key(@)]])

is_missing(val) ==
    \/ val.k = "null"
    \/ (val.k = "text" /\ Strip(val.s) = <<>>)

\* drop_duplicates(subset=[KEY_COL], keep="first") on the rows
RECURSIVE KeepFirst(_, _)
KeepFirst(rows, i) ==
    IF i > Len(rows) THEN <<>>
    ELSE (IF \E j \in 1..(i - 1) : rows[j][KEY_COL] = rows[i][KEY_COL]
          THEN <<>> ELSE <<rows[i]>>) \o KeepFirst(rows, i + 1)
DropDuplicates(df) == Frame(df.cols, KeepFirst(df.rows, 1))

\* s.reindex(base_df.index) at one key: the value of column col in the row
\* of the (duplicate-free) frame with that key, NaN when there is none.
Aligned(dedup, col, key) ==
    IF \E j \in 1..Len(dedup.rows) : dedup.rows[j][KEY_COL] = key
    THEN dedup.rows[CHOOSE j \in 1..Len(dedup.rows) :
                       dedup.rows[j][KEY_COL] = key][col]
    ELSE Null

\* base_df[col] = pd.NA when base has no such column
WithColumn(df, col) ==
    IF col \in ColSet(df) THEN df
    ELSE Frame(Append(df.cols, col),
               [i \in 1..Len(df.rows) |->
                  [c \in ColSet(df) \cup {col} |->
                     IF c = col THEN Null ELSE df.rows[i][c]]])

\* set_index(KEY_COL) ... reset_index(): the key becomes the first column.
ResetIndex(df) == Frame(<<KEY_COL>> \o Without(df.cols, KEY_COL), df.rows)

\* merge_new's fill with the test of the base cell left out.
UpdateCell_Overwrites(old, new) == IF ~is_missing(new) THEN new ELSE old

\* merge_new's fill of one cell: mask = base missing and new not missing.
UpdateCell(old, new) == IF is_missing(old) /\ ~is_missing(new) THEN new ELSE old

\* add_new_columns' fill of one cell: mask_missing = base missing.
AbsorbCell(old, new) == IF is_missing(old) THEN new ELSE old

\* The loop body of merge_new for one target column.
UpdateColumn(df, dedup, col) ==
    LET b == WithColumn(df, col)
    IN  Frame(b.cols,
              [i \in 1..Len(b.rows) |->
                 [b.rows[i] EXCEPT ![col] =
                    UpdateCell(@, Aligned(dedup, col, b.rows[i][KEY_COL]))]])

RECURSIVE UpdateColumns(_, _, _, _)
UpdateColumns(df, dedup, cols, n) ==
    IF n > Len(cols) THEN df
    ELSE UpdateColumns(UpdateColumn(df, dedup, cols[n]), dedup, cols, n + 1)

\* The rows of new whose key no base row has, cut to the base's columns,
\* NA where new has no such column.
ToAppend(df, dedup) ==
    LET new_only == SelectSeq(dedup.rows,
                      LAMBDA r : \A i \in 1..Len(df.rows) :
                                    df.rows[i][KEY_COL] # r[KEY_COL])
    IN  [n \in 1..Len(new_only) |->
           [c \in ColSet(df) |->
              IF c \in ColSet(dedup) THEN new_only[n][c] ELSE Null]]

\* merge_new: err is the KeyError of a new frame without the key column (or
\* of a target column that is the key column).
merge_new(base, new, targets) ==
    IF KEY_COL \notin ColSet(new)
       \/ \E n \in 1..Len(targets) : targets[n] = KEY_COL
    THEN [err |-> TRUE, df |-> Frame(<<>>, <<>>)]
    ELSE LET b == NormalizeKeys(base)
             dedup == DropDuplicates(NormalizeKeys(new))
             new_map == SelectSeq(targets, LAMBDA c : c \in ColSet(new))
             updated == IF new_map # <<>>
                        THEN ResetIndex(UpdateColumns(b, dedup, new_map, 1))
                        ELSE b
         IN  [err |-> FALSE,
              df |-> Frame(updated.cols, updated.rows \o ToAppend(updated, dedup))]

\* new_cols with the columns the base already has left in.
NewColumns_KeepsBaseColumns(base, new, mode) ==
    LET new_cols == SelectSeq(new.cols, LAMBDA c : c # KEY_COL)
    IN  IF mode = "auto" THEN SelectSeq(new_cols, _is_element_col)
        ELSE IF mode = "all" THEN new_cols
        ELSE <<>>

\* new_cols: the columns of new the base has not, the key aside; in mode
\* auto those named like an element; none in any mode but auto and all.
NewColumns(base, new, mode) ==
    LET new_cols == SelectSeq(new.cols,
                              LAMBDA c : c \notin ColSet(base) /\ c # KEY_COL)
    IN  IF mode = "auto" THEN SelectSeq(new_cols, _is_element_col)
        ELSE IF mode = "all" THEN new_cols
        ELSE <<>>

\* The loop body of add_new_columns for one new column.
AbsorbColumn(df, dedup, col) ==
    LET b == WithColumn(df, col)
    IN  ResetIndex(
          Frame(b.cols,
                [i \in 1..Len(b.rows) |->
                   [b.rows[i] EXCEPT ![col] =
                      AbsorbCell(@, Aligned(dedup, col, b.rows[i][KEY_COL]))]]))

RECURSIVE AbsorbColumns(_, _, _, _)
AbsorbColumns(df, dedup, cols, n) ==
    IF n > Len(cols) THEN df
    ELSE AbsorbColumns(AbsorbColumn(df, dedup, cols[n]), dedup, cols, n + 1)

add_new_columns(base, new, mode) ==
    IF mode = "none" THEN base
    ELSE LET b == NormalizeKeys(base)
             dedup == DropDuplicates(NormalizeKeys(new))
         IN  AbsorbColumns(b, dedup, NewColumns(b, new, mode), 1)

\* main(): merged = merge_new(base_df, new_df)
main_merge_new ==
    /\ mpc = "start"
    /\ IF merge_new(base_df, new_df, TARGET_COLS).err
       THEN mpc' = "raised" /\ merged' = merged
       ELSE /\ mpc' = "merged"
            /\ merged' = merge_new(base_df, new_df, TARGET_COLS).df
    /\ UNCHANGED <<base_df, new_df, TARGET_COLS, elements, appVars>>

\* main(): merged = add_new_columns(merged, new_df, mode=args.elements)
main_add_new_columns ==
    /\ mpc = "merged"
    /\ mpc' = "done"
    /\ merged' = add_new_columns(merged, new_df, elements)
    /\ UNCHANGED <<base_df, new_df, TARGET_COLS, elements, appVars>>

---------------------------------------------------------------------------
(* The spreadsheets and requests the model draws from.                     *)
SeqsUpTo(S, n) == UNION {[1..m -> S] : m \in 0..n}

EmptyFrame == [cols |-> <<>>, rows |-> <<>>]

\* Rows of a two-column sheet: text, numbers, numerals written as text (with
\* a sign, with a leading blank), text with a numeric prefix, empty cells.
SheetRows ==
    { <<Text(<<"a">>), Num(2)>>,
      <<Num(1), Text(<<"2", "a">>)>>,
      <<Null, Null>>,
      <<Text(<<"-", "1">>), Text(<<" ", "3">>)>>,
      <<Text(<<>>), Num(0)>> }

SheetSchemas ==
    { <<"HeJinChengFen", "Ti">>, <<"Name", "Density">>, <<"id", "category">> }

Sheets ==
    {[cols |-> c, rows |-> r] : c \in SheetSchemas, r \in SeqsUpTo(SheetRows, MaxRows)}

\* The CSV sources of the model have no id column.
CsvSheets ==
    {sh \in Sheets :
        \A j \in 1..Len(sh.cols) : ColumnType(sh.cols[j]) # "INTEGER PRIMARY KEY"}

\* The bounds of a range constraint; a bound the request leaves out is None.
BoundPairs == {<<Num(-1), Num(1)>>, <<Num(2), Num(3)>>}

Conditions(t) ==
    {[property |-> p, min |-> b[1], max |-> b[2]] :
        p \in {t.cols[j] : j \in 1..Len(t.cols)} \cup {""}, b \in BoundPairs}
    \cup {[property |-> t.cols[j], min |-> Null, max |-> Num(1)] : j \in {1}}

QueryRequests(t) ==
    {[NoRequest EXCEPT !.op = "properties"]}
    \cup {[NoRequest EXCEPT !.op = "search", !.conditions = c] :
            c \in SeqsUpTo(Conditions(t), MaxConds)}

\* No upload is run step by step.
NoUpload ==
    [file |-> "", sheet |-> EmptyFrame, ts |-> 0, remove |-> "", copy |-> ""]
UploadIdle == upc = "idle" /\ up = NoUpload

MergeIdle ==
    /\ mpc = "idle"
    /\ base_df = EmptyFrame
    /\ new_df = EmptyFrame
    /\ TARGET_COLS = <<>>
    /\ elements = ""
    /\ merged = EmptyFrame

---------------------------------------------------------------------------
(* The read requests on one table: the active database is main as init_db  *)
(* built it (from the spreadsheet or from the CSV file), or user as an     *)
(* upload built it; one request is pending.                                *)
InitQuery ==
    /\ \E active \in {MAIN_DB, USER_DB} :
       \E t \in {BuildFromFrame(ReadExcel(sh)) : sh \in Sheets}
               \cup (IF active = MAIN_DB
                     THEN {BuildFromCsv(sh) : sh \in CsvSheets} ELSE {}) :
          /\ CURRENT_DB = active
          /\ fs = [p \in Paths |-> IF p = active THEN t ELSE Absent]
          /\ request \in QueryRequests(t)
    /\ pd = TRUE
    /\ clock = 0
    /\ resp = NoResp
    /\ UploadIdle
    /\ MergeIdle

NextQuery == properties \/ search

SpecQuery == InitQuery /\ [][NextQuery]_vars

---------------------------------------------------------------------------
(* Claims about the read requests (checked under SpecQuery).               *)
ActiveTable == fs[CURRENT_DB]
RowIds(t) == 1..Len(t.rows)
Returned == {resp.rows[n] : n \in 1..Len(resp.rows)}
SearchAnswered == resp.op = "search" /\ resp.status = 200

\* A stored value that is a number: a number, or a text that is a numeral.
CastsToNumber(v) == v.k = "num" \/ (v.k = "text" /\ IsNumeral(Strip(v.s)))
NumberOf(v) == IF v.k = "num" THEN v.n ELSE NumeralValue(Strip(v.s))

\* C1: with a single range constraint (p, lo, hi), a row is in the search
\* result if and only if its value for p casts to a number within [lo, hi];
\* a row whose value is no number (text, NULL, blank) is never in the result.
C1_RangeFilterExcludesNonNumbers ==
    (/\ SearchAnswered
     /\ Len(request.conditions) = 1
     /\ request.conditions[1].property # ""
     /\ request.conditions[1].min.k = "num"
     /\ request.conditions[1].max.k = "num")
    => LET c == request.conditions[1]
           t == ActiveTable
       IN  \A i \in RowIds(t) :
             LET v == t.rows[i][ColIndex(t, c.property)]
             IN  i \in Returned <=>
                   /\ CastsToNumber(v)
                   /\ c.min.n <= NumberOf(v)
                   /\ NumberOf(v) <= c.max.n

\* The columns the spec calls candidates: not the identifier, not name or
\* category, not a name alias.
TextLike(f) ==
    \/ Lower(f) \in {"id", "name", "category"}
    \/ \E i \in 1..Len(NAME_CANDIDATES) : NAME_CANDIDATES[i] = f
CandidateColumns(t) == {t.cols[j] : j \in 1..Len(t.cols)} \ {f \in {t.cols[j] : j \in 1..Len(t.cols)} : TextLike(f)}
NonEmptyValues(t, f) ==
    {i \in RowIds(t) : ColumnValues(t, f)[i] \notin {Null, Text(<<>>)}}

\* C6: a candidate column is reported if and only if all its non-NULL,
\* non-empty values parse as numbers and there is at least one; the reported
\* min and max are the smallest and the largest of the parsed values.
C6_RangeIffAllNumeric ==
    resp.op = "properties" =>
      \A f \in CandidateColumns(ActiveTable) :
        LET vals == ColumnValues(ActiveTable, f)
            ne == NonEmptyValues(ActiveTable, f)
        IN  /\ f \in DOMAIN resp.result <=>
                 (ne # {} /\ \A i \in ne : PyFloat(vals[i]).ok)
            /\ f \in DOMAIN resp.result =>
                 /\ \A i \in ne : /\ resp.result[f].min <= PyFloat(vals[i]).v
                                  /\ PyFloat(vals[i]).v <= resp.result[f].max
                 /\ \E i \in ne : PyFloat(vals[i]).v = resp.result[f].min
                 /\ \E i \in ne : PyFloat(vals[i]).v = resp.result[f].max

\* A range with distinct bounds was reported for a column that also holds
\* an empty cell.
C6_Witness ==
    /\ resp.op = "properties"
    /\ \E f \in CandidateColumns(ActiveTable) :
         /\ f \in DOMAIN resp.result
         /\ resp.result[f].min < resp.result[f].max
         /\ \E i \in RowIds(ActiveTable) : ColumnValues(ActiveTable, f)[i] = Null

\* C7: no range is ever reported for the identifier, for name or category
\* (in any case), or for a name alias of NAME_CANDIDATES.
C7_NoRangeForTextLikeColumns ==
    resp.op = "properties" => \A f \in DOMAIN resp.result : ~TextLike(f)

\* One constraint's predicate on row i.
Satisfies(t, i, c) ==
    Between(CastReal(t.rows[i][ColIndex(t, c.property)]), c.min, c.max)

\* C8: the result is exactly the rows that satisfy every constraint that has
\* a property; constraints without one are skipped, so a list with none, or
\* with only such constraints, returns every row.
C8_ConjunctionOfConstraints ==
    (request.op = "search" /\ resp.op # "none" /\ ActiveTable.st = "table") =>
      /\ SearchAnswered
      /\ Returned =
           {i \in RowIds(ActiveTable) :
              \A n \in 1..Len(request.conditions) :
                 request.conditions[n].property # ""
                   => Satisfies(ActiveTable, i, request.conditions[n])}
      /\ (\A n \in 1..Len(request.conditions) :
             request.conditions[n].property = "")
           => Returned = RowIds(ActiveTable)
      /\ \A a, b \in 1..Len(resp.rows) : a < b => resp.rows[a] < resp.rows[b]

\* A search with a constraint on each of two columns returned some rows and
\* left some out.
C8_Witness ==
    /\ SearchAnswered
    /\ Len(request.conditions) = 2
    /\ request.conditions[1].property # ""
    /\ request.conditions[2].property # ""
    /\ request.conditions[1].property # request.conditions[2].property
    /\ Returned # {}
    /\ Returned # RowIds(ActiveTable)

---------------------------------------------------------------------------
(* The dataset selector: requests handled one after the other.             *)

\* The sources of main and the uploaded sheets of this specification.
MainSources ==
    { [kind |-> "xls",
       sheet |-> [cols |-> <<"HeJinChengFen", "Ti">>,
                  rows |-> << <<Text(<<"a">>), Num(2)>> >>]],
      [kind |-> "csv",
       sheet |-> [cols |-> <<"name", "Density">>,
                  rows |-> << <<Text(<<"b">>), Text(<<"3">>)>>, <<Null, Null>> >>]] }

UploadSheets ==
    { [cols |-> <<"HeJinChengFen", "Ti">>,
       rows |-> << <<Text(<<"c">>), Num(1)>>, <<Text(<<>>), Text(<<"2", "a">>)>> >>],
      [cols |-> <<"Name">>, rows |-> <<>>],
      EmptyFrame }

Uploads ==
    {[file |-> "data.xlsx", sheet |-> sh, ts |-> t, remove |-> rm, copy |-> cp] :
        sh \in UploadSheets, t \in 1..MaxTs,
        rm \in {"ok", "fail"}, cp \in {"ok", "fail", "partial"}}
    \cup {[file |-> f, sheet |-> EmptyFrame, ts |-> t, remove |-> "ok", copy |-> "ok"] :
            f \in {"", "notes.txt", "broken.xlsx", "DATA.XLS"}, t \in 1..MaxTs}

\* The module is loaded: main is active; no database file exists yet.
Init ==
    /\ fs = [p \in Paths |-> Absent]
    /\ CURRENT_DB = MAIN_DB
    /\ pd \in BOOLEAN
    /\ clock = 0
    /\ request = NoRequest
    /\ resp = NoResp
    /\ UploadIdle
    /\ MergeIdle

Next ==
    \/ \E src \in MainSources : init_db(src)
    \/ \E key \in {"main", "user", "backup", ""} : db_select(key)
    \/ \E u \in Uploads : db_upload(u)
    \/ stats
    \/ db_options

Spec == Init /\ [][Next]_vars

---------------------------------------------------------------------------
(* Claims about the dataset selector (checked under Spec).                 *)
\* The step is db_select, db_upload, on the input the request variable logs.
SelectStep == request'.op = "select" /\ db_select(request'.db)
UploadStep ==
    /\ request'.op = "upload"
    /\ db_upload([file |-> request'.file, sheet |-> request'.sheet,
                  ts |-> request'.ts, remove |-> request'.remove,
                  copy |-> request'.copy])
OneActive ==
    /\ CURRENT_DB \in Paths
    /\ Cardinality({k \in {"main", "user", "temp"} : Cur(CURRENT_DB) = k}) = 1

\* C2: exactly one database is active, and every request that
\* changes the active database leaves the one that was active untouched.
C2_SwitchLeavesPriorUntouched ==
    /\ []OneActive
    /\ [][CURRENT_DB' # CURRENT_DB => fs'[CURRENT_DB] = fs[CURRENT_DB]]_vars

\* select-user switched from main to user; both hold a table.
C2_Witness ==
    /\ resp.op = "select" /\ resp.current = "user" /\ resp.before = "main"
    /\ CURRENT_DB = USER_DB
    /\ fs[MAIN_DB].st = "table" /\ fs[USER_DB].st = "table"

\* C3: select-user with no user database and main present creates user as a
\* copy of main and activates it; a later change of main leaves user as it
\* is; select-user with user present does not copy main over it.
C3_UserIsACopyOfMain ==
    /\ [][(db_select("user") /\ ~Exists(fs, USER_DB) /\ Exists(fs, MAIN_DB))
            => /\ fs'[USER_DB] = fs[MAIN_DB]
               /\ fs'[MAIN_DB] = fs[MAIN_DB]
               /\ CURRENT_DB' = USER_DB]_vars
    /\ [][fs'[MAIN_DB] # fs[MAIN_DB] => fs'[USER_DB] = fs[USER_DB]]_vars
    /\ [][(db_select("user") /\ Exists(fs, USER_DB))
            => fs'[USER_DB] = fs[USER_DB]]_vars

\* select-user answered with user active, user being a copy of an earlier
\* main that main no longer equals.
C3_Witness ==
    /\ resp.op = "select" /\ resp.current = "user" /\ CURRENT_DB = USER_DB
    /\ fs[MAIN_DB].st = "table"
    /\ fs[USER_DB] \in {InitDbTable(src) : src \in MainSources}
    /\ fs[USER_DB] # fs[MAIN_DB]

Unchanged3 ==
    /\ CURRENT_DB' = CURRENT_DB
    /\ fs'[MAIN_DB] = fs[MAIN_DB]
    /\ fs'[USER_DB] = fs[USER_DB]

FullSuccess ==
    /\ resp'.status = 200
    /\ fs'[MAIN_DB] = fs[MAIN_DB]
    /\ \/ /\ db_select("main")
          /\ CURRENT_DB' = MAIN_DB /\ fs' = fs
       \/ /\ db_select("user")
          /\ CURRENT_DB' = USER_DB
          /\ fs'[USER_DB] = IF Exists(fs, USER_DB) THEN fs[USER_DB] ELSE fs[MAIN_DB]
       \/ /\ UploadStep
          /\ CURRENT_DB' = USER_DB
          /\ fs'[USER_DB] = BuildFromFrame(ReadExcel(request'.sheet))

Uploaded == BuildFromFrame(ReadExcel(request'.sheet))
UploadReplaced ==
    /\ CURRENT_DB' = USER_DB /\ fs'[USER_DB] = Uploaded
    /\ resp'.ok /\ resp'.current = "user" /\ ~resp'.warn
UploadFellBack ==
    /\ CURRENT_DB' = TmpDb(request'.ts) /\ fs'[CURRENT_DB'] = Uploaded
    /\ resp'.ok /\ resp'.current = "temp" /\ resp'.warn

\* C5: a built upload ends with user replaced and active, or with
\* temp active, a warning and ok = true, the user database holding its prior
\* contents; the active database holds the uploaded table.
C5_UploadReplacesOrKeepsUser ==
    [][(UploadStep /\ resp'.status = 200)
         => \/ UploadReplaced
            \/ (UploadFellBack /\ fs'[USER_DB] = fs[USER_DB])]_vars

\* An upload fell back to temp and the user database, active before, is gone.
C5_Witness ==
    /\ resp.op = "upload" /\ resp.status = 200 /\ resp.current = "temp"
    /\ resp.before = "user"
    /\ ~Exists(fs, USER_DB)
    /\ fs[CURRENT_DB].st = "table" /\ Len(fs[CURRENT_DB].rows) > 0

---------------------------------------------------------------------------
(* The merge tool on drawn frames: main() runs merge_new, then             *)
(* add_new_columns, on the two frames it has read.                         *)
MergeRow(key, comp, ti, note) ==
    [c \in {KEY_COL, "HeJinChengFen", "Ti", "note"} |->
       IF c = KEY_COL THEN key
       ELSE IF c = "HeJinChengFen" THEN comp
       ELSE IF c = "Ti" THEN ti
       ELSE note]

Project(row, cols) == [c \in {cols[j] : j \in 1..Len(cols)} |-> row[c]]

AlTiCu == Text(<<"A", "l", "T", "i", "C", "u">>)

\* Base rows: blank and missing cells, a key to strip, a key that is a
\* number, a filled row.
BaseRows ==
    { MergeRow(Text(<<"f", "1">>), Text(<<>>), Null, Null),
      MergeRow(Text(<<" ", "f", "1">>), Text(<<"X">>), Num(7), Null),
      MergeRow(Num(2), Null, Null, Null),
      MergeRow(Text(<<"f", "3">>), Text(<<" ">>), Null, Null) }

\* New rows: two with the same key once stripped, one whose key is the text
\* of a number, one no base row matches.
NewRows ==
    { MergeRow(Text(<<"f", "1">>), AlTiCu, Num(5), Text(<<"n">>)),
      MergeRow(Text(<<"f", "1", " ">>), Null, Num(6), Null),
      MergeRow(Text(<<"2">>), Text(<<"Y">>), Null, Text(<<" ">>)),
      MergeRow(Text(<<"f", "9">>), Text(<<"Z">>), Num(8), Text(<<"m">>)) }

BaseSchemas ==
    { <<KEY_COL, "HeJinChengFen", "Ti">>, <<"HeJinChengFen", KEY_COL>> }

NewSchemas ==
    { <<KEY_COL, "HeJinChengFen", "Ti">>, <<KEY_COL, "HeJinChengFen", "Ti", "note">> }

FrameOf(cols, rows) ==
    Frame(cols, [i \in 1..Len(rows) |-> Project(rows[i], cols)])

BaseFrames ==
    {FrameOf(c, r) : c \in BaseSchemas,
                     r \in SeqsUpTo(BaseRows, MaxBaseRows) \ {<<>>}}

\* The last frame has no key column.
NewFrames ==
    {FrameOf(c, r) : c \in NewSchemas, r \in SeqsUpTo(NewRows, MaxNewRows)}
    \cup {Frame(<<"HeJinChengFen">>, <<[c \in {"HeJinChengFen"} |-> AlTiCu]>>)}

InitMerge ==
    /\ mpc = "start"
    /\ base_df \in BaseFrames
    /\ new_df \in NewFrames
    /\ TARGET_COLS \in {DefaultTargetCols, <<"HeJinChengFen", "Ti">>}
    /\ elements \in {"auto", "all", "none"}
    /\ merged = EmptyFrame
    /\ fs = [p \in Paths |-> Absent]
    /\ CURRENT_DB = MAIN_DB
    /\ pd = TRUE
    /\ clock = 0
    /\ request = NoRequest
    /\ resp = NoResp
    /\ UploadIdle

NextMerge == main_merge_new \/ main_add_new_columns

SpecMerge == InitMerge /\ [][NextMerge]_vars

---------------------------------------------------------------------------
(* Claims on the merge tool.                                               *)
ExampleBase ==
    FrameOf(<<KEY_COL, "HeJinChengFen", "Ti">>,
            <<MergeRow(Text(<<"f", "1">>), Text(<<>>), Null, Null)>>)
ExampleNew ==
    FrameOf(<<KEY_COL, "HeJinChengFen", "Ti">>,
            <<MergeRow(Text(<<"f", "1">>), AlTiCu, Num(5), Text(<<"n">>))>>)
ExampleRun ==
    /\ mpc = "done"
    /\ base_df = ExampleBase
    /\ new_df = ExampleNew
    /\ TARGET_COLS = DefaultTargetCols
ExampleRowTiUnchanged ==
    /\ Len(merged.rows) = 1
    /\ merged.rows[1][KEY_COL] = Text(<<"f", "1">>)
    /\ merged.rows[1]["HeJinChengFen"] = AlTiCu
    /\ merged.rows[1]["Ti"] = Null

\* C9 as stated: on the example (base row ("f1", blank, null), new row
\* ("f1", "AlTiCu", 5), default target column) merge_new followed by
\* add_new_columns yields ("f1", "AlTiCu", null) in mode none and Ti = 5
\* in the modes auto and all.
C9_ExampleTiFilledByElementMode ==
    ExampleRun =>
        IF elements = "none" THEN ExampleRowTiUnchanged
        ELSE /\ Len(merged.rows) = 1
             /\ merged.rows[1]["Ti"] = Num(5)

\* C9 amended: on the example the run yields the row ("f1", "AlTiCu", null)
\* in every element mode; Ti is a column of the base, so it is neither a
\* default target column nor a column add_new_columns absorbs.
C9_ExampleTiUnchangedInEveryMode ==
    ExampleRun => (merged.cols = ExampleBase.cols /\ ExampleRowTiUnchanged)

C9_Witness ==
    /\ ExampleRun
    /\ elements = "auto"
    /\ merged.rows[1]["HeJinChengFen"] = AlTiCu

\* The columns the run fills: the target columns and the columns of new
\* that add_new_columns absorbs.
FilledColumns ==
    {c \in ColSet(merged) :
        \/ \E n \in 1..Len(TARGET_COLS) : TARGET_COLS[n] = c
        \/ c \notin ColSet(base_df) \cup {KEY_COL}}

OriginalCell(i, c) ==
    IF c \in ColSet(base_df) THEN base_df.rows[i][c] ELSE Null

\* The rows of new with the trimmed, stringified key of base row i.
SameKeyRows(i) ==
    {j \in 1..Len(new_df.rows) :
        normalize_key(new_df.rows[j][KEY_COL])
          = normalize_key(base_df.rows[i][KEY_COL])}

FirstSameKeyRow(i) ==
    CHOOSE j \in SameKeyRows(i) : \A k \in SameKeyRows(i) : j <= k

HasNewValue(i, c) ==
    /\ SameKeyRows(i) # {}
    /\ c \in ColSet(new_df)
    /\ ~is_missing(new_df.rows[FirstSameKeyRow(i)][c])

\* C10: after merge_new, and after add_new_columns, the cell of every base
\* row in a target or absorbed column is its original value if that was not
\* blank; otherwise it is the non-blank value of the first new row with the
\* same trimmed, stringified key, and is still missing when there is no such
\* row or value.
C10_FillsOnlyMissingCells ==
    mpc \in {"merged", "done"} =>
        /\ Len(merged.rows) >= Len(base_df.rows)
        /\ \A i \in 1..Len(base_df.rows) : \A c \in FilledColumns :
              IF ~is_missing(OriginalCell(i, c))
              THEN merged.rows[i][c] = OriginalCell(i, c)
              ELSE IF HasNewValue(i, c)
                   THEN merged.rows[i][c] = new_df.rows[FirstSameKeyRow(i)][c]
                   ELSE is_missing(merged.rows[i][c])

\* A run where one base cell was filled from the first of two new rows with
\* its key, another kept its value against a new one, and a column was
\* absorbed.
C10_Witness ==
    /\ mpc = "done"
    /\ \E i \in 1..Len(base_df.rows) :
          /\ is_missing(OriginalCell(i, "HeJinChengFen"))
          /\ Cardinality(SameKeyRows(i)) = 2
          /\ HasNewValue(i, "HeJinChengFen")
          /\ merged.rows[i]["HeJinChengFen"]
               = new_df.rows[FirstSameKeyRow(i)]["HeJinChengFen"]
    /\ \E i \in 1..Len(base_df.rows) :
          /\ ~is_missing(OriginalCell(i, "HeJinChengFen"))
          /\ HasNewValue(i, "HeJinChengFen")
          /\ new_df.rows[FirstSameKeyRow(i)]["HeJinChengFen"]
               # OriginalCell(i, "HeJinChengFen")
          /\ merged.rows[i]["HeJinChengFen"] = OriginalCell(i, "HeJinChengFen")
    /\ \E c \in FilledColumns : c \notin ColSet(base_df)

---------------------------------------------------------------------------
(* Requests that interleave.  app.run serves each request on a thread of   *)
(* its own, so a request may run between two statements of db_upload.  The *)
(* handler is cut where it touches the user database: the build of tmp_db, *)
(* os.remove(USER_DB), shutil.copyfile(tmp_db, USER_DB).  One upload is in *)
(* flight at a time.                                                       *)

\* The removal carrying the whole replacement: the new table is in place
\* when the step ends.
RemoveUser_Replaces(files, u) == Replaced(files, u)

\* if os.path.exists(USER_DB): os.remove(USER_DB), a failure being ignored
RemoveUser(files, u) ==
    IF Exists(files, USER_DB) /\ u.remove = "ok"
    THEN [files EXCEPT ![USER_DB] = Absent] ELSE files

\* shutil.copyfile(tmp_db, USER_DB): done, failed, or failed after the
\* destination was opened
CopyTmp(files, u) ==
    IF u.copy = "ok" THEN [files EXCEPT ![USER_DB] = files[TmpDb(u.ts)]]
    ELSE IF u.copy = "partial" THEN [files EXCEPT ![USER_DB] = NoTable]
    ELSE files

\* db_upload up to the end of the build: a refused or failed upload answers
\* at once, as in db_upload; a built one goes on.
upload_begin(u) ==
    /\ upc = "idle"
    /\ u.ts >= clock
    /\ clock' = IF TimeRead(u) THEN u.ts ELSE clock
    /\ IF UploadOutcome(fs, CURRENT_DB, pd, u).resp.status # 200
       THEN /\ fs' = UploadOutcome(fs, CURRENT_DB, pd, u).fs
            /\ resp' = UploadOutcome(fs, CURRENT_DB, pd, u).resp
            /\ request' = [NoRequest EXCEPT !.op = "upload", !.file = u.file,
                             !.sheet = u.sheet, !.ts = u.ts,
                             !.remove = u.remove, !.copy = u.copy]
            /\ UNCHANGED upVars
       ELSE /\ fs' = [fs EXCEPT ![TmpDb(u.ts)] = BuildFromFrame(ReadExcel(u.sheet))]
            /\ upc' = "built"
            /\ up' = u
            /\ UNCHANGED <<request, resp>>
    /\ UNCHANGED <<CURRENT_DB, pd, mergeVars>>

upload_remove ==
    /\ upc = "built"
    /\ fs' = RemoveUser(fs, up)
    /\ upc' = "removed"
    /\ UNCHANGED <<CURRENT_DB, pd, clock, request, resp, up, mergeVars>>

upload_copy ==
    /\ upc = "removed"
    /\ fs' = CopyTmp(fs, up)
    /\ CURRENT_DB' = IF up.copy = "ok" THEN USER_DB ELSE TmpDb(up.ts)
    /\ request' = [NoRequest EXCEPT !.op = "upload", !.file = up.file,
                     !.sheet = up.sheet, !.ts = up.ts,
                     !.remove = up.remove, !.copy = up.copy]
    /\ resp' = IF up.copy = "ok"
               THEN [Reply("upload", 200) EXCEPT !.ok = TRUE, !.current = "user"]
               ELSE [Reply("upload", 200) EXCEPT
                       !.ok = TRUE, !.current = "temp", !.warn = TRUE]
    /\ upc' = "idle"
    /\ up' = NoUpload
    /\ UNCHANGED <<pd, clock, mergeVars>>

\* The process has started: init_db has built main, no request has come.
InitConc ==
    /\ pd \in BOOLEAN
    /\ \E src \in MainSources :
          /\ src.kind = "xls" => pd
          /\ fs = [p \in Paths |-> IF p = MAIN_DB THEN InitDbTable(src) ELSE Absent]
    /\ CURRENT_DB = MAIN_DB
    /\ clock = 0
    /\ request = NoRequest
    /\ resp = NoResp
    /\ UploadIdle
    /\ MergeIdle

NextConc ==
    \/ \E key \in {"main", "user", "backup", ""} : db_select(key)
    \/ \E u \in Uploads : upload_begin(u)
    \/ upload_remove
    \/ upload_copy
    \/ stats
    \/ db_options

SpecConc == InitConc /\ [][NextConc]_vars

---------------------------------------------------------------------------
(* Claims about interleaved requests (checked under SpecConc).             *)

\* The upload in flight has removed the user database, which is active, and
\* has not copied the new table yet.
MidRebuild ==
    /\ upc = "removed"
    /\ CURRENT_DB = USER_DB
    /\ up.remove = "ok"

\* C11: the replacement is two steps, and a reader can run between them:
\* the removal leaves the user database absent with the active database
\* unchanged and the new table not yet copied; a read request is enabled in
\* that state; and stats, run with user active and absent, finds no table.
C11_ReaderCanSeeMidRebuild ==
    /\ [][(upload_remove /\ Exists(fs, USER_DB) /\ up.remove = "ok")
            => /\ ~Exists(fs', USER_DB)
               /\ CURRENT_DB' = CURRENT_DB
               /\ upc' = "removed"]_vars
    /\ [](MidRebuild => ENABLED stats)
    /\ [][(stats /\ MidRebuild /\ ~Exists(fs, USER_DB))
            => resp'.total = Null]_vars

\* stats has run mid-rebuild with user active: it found no table (the empty
\* file its connection created is still there), while the table the upload
\* has built, with its rows, waits in tmp_db.
C11_Witness ==
    /\ MidRebuild
    /\ resp.op = "stats" /\ resp.before = "user" /\ resp.total = Null
    /\ fs[USER_DB] = NoTable
    /\ fs[MAIN_DB].st = "table"
    /\ fs[TmpDb(up.ts)].st = "table" /\ Len(fs[TmpDb(up.ts)].rows) > 0

---------------------------------------------------------------------------
(* The selector's invariant, each request running to completion (checked   *)
(* under Spec).                                                            *)
ActiveIsTemp == Cur(CURRENT_DB) = "temp"

\* C12: when user is active the user database exists; when temp is active
\* the temp database, the table the upload built, exists; temp becomes
\* active only by an upload whose copy failed.
C12_ActiveDatasetExists ==
    /\ [](CURRENT_DB = USER_DB => Exists(fs, USER_DB))
    /\ [](ActiveIsTemp => fs[CURRENT_DB].st = "table")
    /\ [][(Cur(CURRENT_DB') = "temp" /\ CURRENT_DB' # CURRENT_DB)
            => (UploadStep /\ request'.copy # "ok" /\ resp'.warn)]_vars

\* An upload was refused with temp active, and the temp database is gone.
C12_Witness ==
    /\ ActiveIsTemp
    /\ ~Exists(fs, CURRENT_DB)
    /\ resp.op = "upload" /\ resp.status = 500 /\ resp.before = "temp"

====
